---- MODULE Spec2Model ----
(***************************************************************************)
(* Model of camibrate/boards.py: the frame merger (merge_rows), the point  *)
(* extractor (extract_points) and the pose-vector extractor                *)
(* (extract_rtvecs), with the calibration-object methods they call and     *)
(* the row methods (fill_points_rows, estimate_pose_rows,                  *)
(* get_all_calibration_points) that rewrite the records they read.         *)
(*                                                                         *)
(* Encodings.  A float is a tuple: <<>> is NaN and <<v>> is the finite     *)
(* value v, so NaN = NaN here (the comparison numpy's array_equal makes    *)
(* with equal_nan).  A camera name and a frame key are integers (any       *)
(* hashable, totally ordered Python value).  An optional dict entry        *)
(* (rvec, tvec) is Missing (the key is not in the dict), PyNone (the key   *)
(* maps to None) or Vec(v).  A merged group (a dict) is a function from    *)
(* the camera names it holds to their records.  A record's corners and    *)
(* ids are PyNone or Vec(s), s the sequence of corner points or of point   *)
(* identifiers (counted from 0, as numpy indexes them).                    *)
(***************************************************************************)
EXTENDS Integers, Sequences, FiniteSets, TLC

VARIABLES
    pc,             \* position of the driver: which calls have been made
    all_rows,       \* merge_rows argument: one list of records per camera
    cam_names,      \* cam_names argument: [given |-> FALSE] is None
    merged,         \* merge_rows' result / the extractors' first argument
    board,          \* "None", "Charuco" or "Checkerboard"
    cameras,        \* "None" or "given"
    min_cameras,
    min_points,
    ignore_no_pose,
    objp,           \* extract_points' results
    imgp,
    rtvecs,         \* extract_rtvecs' result
    good,           \* the mask the last extractor call kept rows by
    all_obj,        \* get_all_calibration_points' results
    all_img,
    returned,       \* whether the last merge or extractor call returned a value
    err,            \* the exception that call raised, or "none"
    rows_err,       \* the exception the last row method raised, or "none"
    calls           \* log of the extract_rtvecs calls made so far

vars == << pc, all_rows, cam_names, merged, board, cameras, min_cameras,
           min_points, ignore_no_pose, objp, imgp, rtvecs, good, all_obj,
           all_img, returned, err, rows_err, calls >>

(***************************************************************************)
(* Bounds of the model.                                                    *)
(***************************************************************************)
MaxCams == 2        \* at most this many detection lists / camera names
MaxRecords == 3     \* at most this many records over all lists of a merge
MaxKey == 2         \* frame keys are 0..MaxKey
MaxFrames == 2      \* at most this many merged groups given to an extractor
MaxDetections == 2  \* at most this many records in those groups together
MaxImages == 2      \* at most this many image files given to detect_images

FrameKeys == 0 .. MaxKey
CamNameSet == 0 .. (MaxCams - 1)

(***************************************************************************)
(* Python values.                                                          *)
(***************************************************************************)
NaN == <<>>
IsNaN(x) == x = <<>>
Missing == [tag |-> "missing", v |-> <<>>]
PyNone == [tag |-> "None", v |-> <<>>]
Vec(v) == [tag |-> "vec", v |-> v]
NoNames == [given |-> FALSE, names |-> <<>>]
Names(s) == [given |-> TRUE, names |-> s]

Min2(a, b) == IF a <= b THEN a ELSE b

\* dict assignment d[k] = v
Put(d, k, v) == [x \in (DOMAIN d) \cup {k} |-> IF x = k THEN v ELSE d[x]]

RECURSIVE SortedDesc(_)
SortedDesc(S) ==
    IF S = {} THEN <<>>
    ELSE LET m == CHOOSE x \in S : \A y \in S : y <= x
         IN  <<m>> \o SortedDesc(S \ {m})

\* sorted(S): ascending
RECURSIVE Sorted(_)
Sorted(S) ==
    IF S = {} THEN <<>>
    ELSE LET m == CHOOSE x \in S : \A y \in S : x <= y
         IN  <<m>> \o Sorted(S \ {m})

(***************************************************************************)
(* merge_rows                                                              *)
(***************************************************************************)
\* range(len(all_rows)): the default camera names 0, 1, ...
DefaultNames(n) == [i \in 1 .. n |-> i - 1]

\* a single dict shared by all cameras instead of one per camera
RECURSIVE PutRowsShared(_, _, _, _)
PutRowsShared(d, cname, rows, j) ==
    IF j > Len(rows) THEN d
    ELSE PutRowsShared(Put(d, <<0, rows[j].framenum>>, rows[j]), 0, rows, j + 1)

\* the inner loop: rows_dict[cname][num] = r for each r of one list
RECURSIVE PutRows(_, _, _, _)
PutRows(d, cname, rows, j) ==
    IF j > Len(rows) THEN d
    ELSE PutRows(Put(d, <<cname, rows[j].framenum>>, rows[j]), cname, rows, j + 1)

\* the outer loop over zip(cam_names, all_rows); rows_dict is keyed by
\* <<cname, framenum>>
RECURSIVE FillRowsDict(_, _, _, _)
FillRowsDict(d, names, rows, i) ==
    IF i > Min2(Len(names), Len(rows)) THEN d
    ELSE FillRowsDict(PutRows(d, names[i], rows[i], 1), names, rows, i + 1)

\* the frame numbers added to the set framenums
FrameNums(d) == {k[2] : k \in DOMAIN d}

\* a group that holds every camera name, with some record of the frame
GroupFabricated(d, names, num) ==
    [c \in {names[i] : i \in 1 .. Len(names)} |->
        IF <<c, num>> \in DOMAIN d THEN d[<<c, num>>]
        ELSE d[CHOOSE k \in DOMAIN d : k[2] = num]]

\* the dict d built for one frame number
Group(d, names, num) ==
    [c \in {names[i] : i \in 1 .. Len(names)} \cap {k[1] : k \in {x \in DOMAIN d : x[2] = num}}
        |-> d[<<c, num>>]]

\* the body of merge_rows after the assertion
MergeBody(rows, names) ==
    LET d == FillRowsDict(<<>>, names, rows, 1)
        framenums == Sorted(FrameNums(d))
    IN  [n \in 1 .. Len(framenums) |-> Group(d, names, framenums[n])]

\* merge_rows with the assertion left out
merge_rows_unchecked(rows, cn) ==
    [returned |-> TRUE, err |-> "none",
     ret |-> MergeBody(rows, IF cn.given THEN cn.names ELSE DefaultNames(Len(rows)))]

merge_rows(rows, cn) ==
    IF cn.given /\ Len(rows) # Len(cn.names)
    THEN [returned |-> FALSE, err |-> "AssertionError", ret |-> <<>>]
    ELSE [returned |-> TRUE, err |-> "none",
          ret |-> MergeBody(rows, IF cn.given THEN cn.names ELSE DefaultNames(Len(rows)))]

(***************************************************************************)
(* Inputs of the merge: any lists of records a caller passes (keys in any  *)
(* order, repeated or not).  merge_rows reads only r['framenum']; the rest *)
(* of the dict is a tag, under fname, that tells the record objects apart. *)
(***************************************************************************)
SeqsUpTo(S, n) == UNION {[1 .. k -> S] : k \in 0 .. n}

\* the lists of n lists of frame keys holding at most t keys together
RECURSIVE KeyRowsUpTo(_, _)
KeyRowsUpTo(n, t) ==
    IF n = 0 THEN {<<>>}
    ELSE UNION { {Append(s, l) : s \in KeyRowsUpTo(n - 1, t - k), l \in [1 .. k -> FrameKeys]}
                 : k \in 0 .. t }

MakeRecord(k, i, j) ==
    [framenum |-> k, fname |-> <<i, j>>]

MakeRows(kr) ==
    [i \in 1 .. Len(kr) |-> [j \in 1 .. Len(kr[i]) |-> MakeRecord(kr[i][j], i, j)]]

\* at most n lists holding at most t records together
MergeInputs(n, t) == {MakeRows(kr) : kr \in UNION {KeyRowsUpTo(k, t) : k \in 0 .. n}}

CamNameInputs == {NoNames} \cup {Names(s) : s \in SeqsUpTo(CamNameSet, MaxCams)}

\* nothing extracted yet, no row method called yet
NoResults ==
    /\ objp = <<>> /\ imgp = <<>> /\ rtvecs = <<>> /\ good = <<>>
    /\ all_obj = <<>> /\ all_img = <<>>
    /\ returned = FALSE
    /\ err = "none"
    /\ rows_err = "none"
    /\ calls = <<>>

\* an image file is readable, or cv2.imread returns None for it
ImageFiles == {"readable", "unreadable"}

\* images is None, or a list of image files
ImageInputs(n) == {PyNone} \cup {Vec(s) : s \in SeqsUpTo(ImageFiles, n)}

\* CalibrationObject.detect_images, for both board classes: len(None)
\* raises TypeError; in the loop detect_image reads image.shape, which
\* raises AttributeError for the first unreadable file; once the loop is
\* done the method reads the undefined name `cap` (cap.release()) and
\* raises NameError.  It returns no rows
detect_images(images) ==
    IF images.tag = "None"
    THEN [returned |-> FALSE, err |-> "TypeError", rows |-> <<>>]
    ELSE IF \E i \in 1 .. Len(images.v) : images.v[i] = "unreadable"
         THEN [returned |-> FALSE, err |-> "AttributeError", rows |-> <<>>]
         ELSE [returned |-> FALSE, err |-> "NameError", rows |-> <<>>]

InitMerge ==
    /\ pc = "start"
    /\ all_rows \in MergeInputs(MaxCams, MaxRecords)
    /\ cam_names \in CamNameInputs
    /\ merged = <<>>
    /\ board = "None" /\ cameras = "None"
    /\ min_cameras = 1 /\ min_points = 3 /\ ignore_no_pose = FALSE
    /\ NoResults

\* board.detect_images(images): the call raises, no list is added to
\* all_rows and the run ends at the exception
DetectImages ==
    /\ pc = "start"
    /\ \E images \in ImageInputs(MaxImages) :
          rows_err' = detect_images(images).err
    /\ pc' = "detect failed"
    /\ UNCHANGED << all_rows, cam_names, merged, board, cameras, min_cameras,
                    min_points, ignore_no_pose, objp, imgp, rtvecs, good,
                    all_obj, all_img, returned, err, calls >>

\* merged = merge_rows(all_rows, cam_names)
MergeRows ==
    /\ pc = "start"
    /\ LET r == merge_rows(all_rows, cam_names)
       IN  /\ merged' = r.ret
           /\ returned' = r.returned
           /\ err' = r.err
    /\ pc' = "merged"
    /\ UNCHANGED << all_rows, cam_names, board, cameras, min_cameras, min_points,
                    ignore_no_pose, objp, imgp, rtvecs, good, all_obj, all_img,
                    rows_err, calls >>

NextMerge == DetectImages \/ MergeRows

SpecMerge == InitMerge /\ [][NextMerge]_vars

(***************************************************************************)
(* The boards: a Checkerboard(squaresX = 1, squaresY = 2) and a            *)
(* CharucoBoard(2, 3, ...), whose grid of inner corners is one less each   *)
(* way and so has the same two points.  objPoints[p] of                    *)
(* np.mgrid[0:rows, 0:cols].T.reshape(-1, 2) is                            *)
(* (p % rows, p // rows, 0) * square_length, p counted from 0.             *)
(***************************************************************************)
TheBoard == [kind |-> "Checkerboard", squaresX |-> 1, squaresY |-> 2, square_length |-> 1]
TheCharuco == [kind |-> "Charuco", squaresX |-> 2, squaresY |-> 3, square_length |-> 1]
BoardObjects == {TheBoard, TheCharuco}

\* the grid the constructor lays the points on
GridCols(b) == IF b.kind = "Charuco" THEN b.squaresX - 1 ELSE b.squaresX
GridRows(b) == IF b.kind = "Charuco" THEN b.squaresY - 1 ELSE b.squaresY

\* total_size; test.shape[0], the number of points of get_empty_detection()
NPointsPerDetect(b) == GridCols(b) * GridRows(b)

\* board.get_object_points().reshape(-1, 3)
ObjpTemplate(b) ==
    [p \in 1 .. NPointsPerDetect(b) |->
        << <<((p - 1) % GridRows(b)) * b.square_length>>,
           <<((p - 1) \div GridRows(b)) * b.square_length>>,
           <<0>> >>]

NaN2 == <<NaN, NaN>>
NaN3 == <<NaN, NaN, NaN>>
NaN6 == <<NaN, NaN, NaN, NaN, NaN, NaN>>

(***************************************************************************)
(* The camera ordering both extractors start with.                         *)
(***************************************************************************)
\* set.union(*[set(r.keys()) for r in merged]), defined for merged # []
UnionOfKeys(m) == UNION {DOMAIN m[r] : r \in 1 .. Len(m)}

\* the list cam_names after the first statement; with no names given and
\* no groups, set.union() has no argument and raises TypeError
OrderingFails(m, cn) == ~cn.given /\ Len(m) = 0
Ordering(m, cn) == IF cn.given THEN cn.names ELSE Sorted(UnionOfKeys(m))

(***************************************************************************)
(* extract_points                                                          *)
(***************************************************************************)
\* bad = np.any(np.isnan(filled), axis=1), for point p
Bad(filled, p) == IsNaN(filled[p][1]) \/ IsNaN(filled[p][2])

\* num_good = np.sum(~bad)
NumGoodPoints(filled) == Cardinality({p \in 1 .. Len(filled) : ~Bad(filled, p)})

\* r.get(key, None) is None
GetIsNone(x) == x.tag = "missing" \/ x.tag = "None"

\* the condition of the continue, with the wrong grouping (a or b) and (c or d)
SkipsRegrouped(r, mp, ig) ==
    (NumGoodPoints(r.filled) < mp \/ ig) /\ (GetIsNone(r.rvec) \/ GetIsNone(r.tvec))

\* the condition of the continue statement
Skips(r, mp, ig) ==
    NumGoodPoints(r.filled) < mp \/ (ig /\ (GetIsNone(r.rvec) \/ GetIsNone(r.tvec)))

\* imgp[cix, rix] after the loop: NaN unless the camera is in the row and
\* is not skipped
ImgCell(b, row, cname, mp, ig) ==
    IF cname \in DOMAIN row /\ ~Skips(row[cname], mp, ig)
    THEN row[cname].filled
    ELSE [p \in 1 .. NPointsPerDetect(b) |-> NaN2]

\* objp[cix, rix] after the loop: the template with the bad points NaN
ObjCell(b, row, cname, mp, ig) ==
    IF cname \in DOMAIN row /\ ~Skips(row[cname], mp, ig)
    THEN [p \in 1 .. NPointsPerDetect(b) |->
            IF Bad(row[cname].filled, p) THEN NaN3 ELSE ObjpTemplate(b)[p]]
    ELSE [p \in 1 .. NPointsPerDetect(b) |-> NaN3]

\* np.reshape(x, (n_cams, -1, d)): observation o is point p of frame rix
FrameOf(b, o) == ((o - 1) \div NPointsPerDetect(b)) + 1
PointOf(b, o) == ((o - 1) % NPointsPerDetect(b)) + 1

\* imgp[cix] and objp[cix] reshaped: the cells of the frames from rix on,
\* one after the other
RECURSIVE ImgFlatRow(_, _, _, _, _, _)
ImgFlatRow(b, m, cname, mp, ig, rix) ==
    IF rix > Len(m) THEN <<>>
    ELSE ImgCell(b, m[rix], cname, mp, ig) \o ImgFlatRow(b, m, cname, mp, ig, rix + 1)

RECURSIVE ObjFlatRow(_, _, _, _, _, _)
ObjFlatRow(b, m, cname, mp, ig, rix) ==
    IF rix > Len(m) THEN <<>>
    ELSE ObjCell(b, m[rix], cname, mp, ig) \o ObjFlatRow(b, m, cname, mp, ig, rix + 1)

RECURSIVE ImgFlatFrom(_, _, _, _, _, _)
ImgFlatFrom(b, m, names, mp, ig, cix) ==
    IF cix > Len(names) THEN <<>>
    ELSE <<ImgFlatRow(b, m, names[cix], mp, ig, 1)>> \o ImgFlatFrom(b, m, names, mp, ig, cix + 1)

RECURSIVE ObjFlatFrom(_, _, _, _, _, _)
ObjFlatFrom(b, m, names, mp, ig, cix) ==
    IF cix > Len(names) THEN <<>>
    ELSE <<ObjFlatRow(b, m, names[cix], mp, ig, 1)>> \o ObjFlatFrom(b, m, names, mp, ig, cix + 1)

\* np.reshape(x, (n_cams, -1, d)): with n_cams = 0 the known dimensions
\* multiply to 0, numpy cannot infer the -1 and raises ValueError
ReshapeFails(n_cams) == n_cams = 0

ImgFlat(b, m, names, mp, ig) ==
    IF ReshapeFails(Len(names)) THEN [err |-> "ValueError", v |-> <<>>]
    ELSE [err |-> "none", v |-> ImgFlatFrom(b, m, names, mp, ig, 1)]

ObjFlat(b, m, names, mp, ig) ==
    IF ReshapeFails(Len(names)) THEN [err |-> "ValueError", v |-> <<>>]
    ELSE [err |-> "none", v |-> ObjFlatFrom(b, m, names, mp, ig, 1)]

\* num_good = np.sum(~np.isnan(imgp), axis=0)[:, 0], at observation o:
\* the cameras whose x component is not NaN
NumGoodCams(img, o) == Cardinality({cix \in 1 .. Len(img) : ~IsNaN(img[cix][o][1])})

\* x[:, good]
RECURSIVE Keep(_, _)
Keep(row, mask) ==
    IF Len(row) = 0 THEN <<>>
    ELSE (IF Head(mask) THEN <<Head(row)>> ELSE <<>>) \o Keep(Tail(row), Tail(mask))

\* good = num_good == min_cameras
RECURSIVE GoodMaskExact(_, _, _, _)
GoodMaskExact(img, n_obs, mc, o) ==
    IF o > n_obs THEN <<>>
    ELSE <<NumGoodCams(img, o) = mc>> \o GoodMaskExact(img, n_obs, mc, o + 1)

\* good = num_good >= min_cameras, from observation o on
RECURSIVE GoodMask(_, _, _, _)
GoodMask(img, n_obs, mc, o) ==
    IF o > n_obs THEN <<>>
    ELSE <<NumGoodCams(img, o) >= mc>> \o GoodMask(img, n_obs, mc, o + 1)

\* x[:, good] for every camera
RECURSIVE KeepAll(_, _, _)
KeepAll(x, mask, cix) ==
    IF cix > Len(x) THEN <<>>
    ELSE <<Keep(x[cix], mask)>> \o KeepAll(x, mask, cix + 1)

\* the last four statements: the mask and the two filtered tensors (the
\* mask is bound once, as the code computes it once)
FilterPoints(obj, img, n_obs, mc) ==
    CHOOSE r \in {[returned |-> TRUE, err |-> "none",
                   objp |-> KeepAll(obj, mask, 1),
                   imgp |-> KeepAll(img, mask, 1),
                   good |-> mask] : mask \in {GoodMask(img, n_obs, mc, 1)}} : TRUE

\* the call raises e and returns nothing
PointsRaise(e) ==
    [returned |-> FALSE, err |-> e, objp |-> <<>>, imgp |-> <<>>, good |-> <<>>]

\* the loop that fills the two tensors, the two reshapes (objp first), then
\* the filter
FillAndFilter(m, b, names, mc, mp, ig) ==
    CHOOSE r \in {IF obj.err # "none" THEN PointsRaise(obj.err)
                  ELSE IF img.err # "none" THEN PointsRaise(img.err)
                  ELSE FilterPoints(obj.v, img.v, Len(m) * NPointsPerDetect(b), mc) :
                      obj \in {ObjFlat(b, m, names, mp, ig)},
                      img \in {ImgFlat(b, m, names, mp, ig)}} : TRUE

extract_points(m, b, cn, mc, mp, ig) ==
    IF OrderingFails(m, cn)
    THEN PointsRaise("TypeError")
    ELSE FillAndFilter(m, b, Ordering(m, cn), mc, mp, ig)

(***************************************************************************)
(* fill_points and the row methods that rewrite the filled field.  The     *)
(* rows a method is given are the records of one camera, in frame order    *)
(* (the list that camera contributed to the merge).                        *)
(***************************************************************************)
\* get_empty_detection(): every point NaN
EmptyDetection(b) == [p \in 1 .. NPointsPerDetect(b) |-> NaN2]

\* for i, cxs in zip(ids, corners): out[i] = cxs, from pair k on; an
\* identifier past the last point raises IndexError
RECURSIVE Scatter(_, _, _, _)
Scatter(out, ids, corners, k) ==
    IF k > Min2(Len(ids), Len(corners)) THEN [err |-> "none", v |-> out]
    ELSE IF (ids[k] + 1) \notin DOMAIN out THEN [err |-> "IndexError", v |-> <<>>]
    ELSE Scatter([out EXCEPT ![ids[k] + 1] = corners[k]], ids, corners, k + 1)

\* board.fill_points(corners, ids): a Checkerboard returns the corners as
\* they are when ids is None; a CharucoBoard calls ids.ravel() on None
fill_points(b, corners, ids) ==
    IF corners.tag = "None" THEN [err |-> "none", v |-> EmptyDetection(b)]
    ELSE IF Len(corners.v) = 0 THEN [err |-> "none", v |-> EmptyDetection(b)]
    ELSE IF ids.tag = "None"
         THEN IF b.kind = "Checkerboard" THEN [err |-> "none", v |-> corners.v]
              ELSE [err |-> "AttributeError", v |-> <<>>]
         ELSE Scatter(EmptyDetection(b), ids.v, corners.v, 1)

\* the frames whose group holds camera c, from frame rix on
RECURSIVE RowsFrom(_, _, _)
RowsFrom(m, c, rix) ==
    IF rix > Len(m) THEN <<>>
    ELSE (IF c \in DOMAIN m[rix] THEN <<rix>> ELSE <<>>) \o RowsFrom(m, c, rix + 1)

RowsOf(m, c) == RowsFrom(m, c, 1)

\* for row in rows: row['filled'] = self.fill_points(...), from row k on,
\* stopping at the first exception (the rows before it stay rewritten)
RECURSIVE FillRows(_, _, _, _, _)
FillRows(st, b, c, rows, k) ==
    IF st.err # "none" \/ k > Len(rows) THEN st
    ELSE FillRows(
           CHOOSE x \in
             {IF f.err # "none" THEN [st EXCEPT !.err = f.err]
              ELSE [st EXCEPT !.merged[rows[k]][c].filled = f.v]
              : f \in {fill_points(b, st.merged[rows[k]][c].corners,
                                      st.merged[rows[k]][c].ids)}} : TRUE,
           b, c, rows, k + 1)

\* board.fill_points_rows(rows), rows the records of camera c
fill_points_rows(m, b, c) ==
    FillRows([merged |-> m, err |-> "none"], b, c, RowsOf(m, c), 1)

\* good = np.all(~np.isnan(filled_test), axis=1), for point p
AllGood(filled, p) == ~IsNaN(filled[p][1]) /\ ~IsNaN(filled[p][2])

\* x[good] for one row: the entries of vals at the good points, from p on
RECURSIVE GoodOnes(_, _, _)
GoodOnes(filled, vals, p) ==
    IF p > Len(filled) THEN <<>>
    ELSE (IF AllGood(filled, p) THEN <<vals[p]>> ELSE <<>>) \o GoodOnes(filled, vals, p + 1)

\* the loop over the rows from row k on: out.obj and out.img are the lists
\* all_obj and all_img joined; a filled array of another length than the
\* board's cannot index objp (IndexError)
RECURSIVE CollectGood(_, _, _, _, _, _)
CollectGood(out, m, b, c, rows, k) ==
    IF out.err # "none" \/ k > Len(rows) THEN out
    ELSE CollectGood(
           IF Len(m[rows[k]][c].filled) # NPointsPerDetect(b)
           THEN [out EXCEPT !.err = "IndexError"]
           ELSE [out EXCEPT
                   !.obj = @ \o GoodOnes(m[rows[k]][c].filled, ObjpTemplate(b), 1),
                   !.img = @ \o GoodOnes(m[rows[k]][c].filled, m[rows[k]][c].filled, 1)],
           m, b, c, rows, k + 1)

\* board.get_all_calibration_points(rows), rows the records of camera c:
\* the rows are filled again, then the good points of every row are
\* stacked; np.vstack of no rows raises ValueError
get_all_calibration_points(m, b, c) ==
    CHOOSE x \in
      {IF st.err # "none"
       THEN [returned |-> FALSE, err |-> st.err, all_obj |-> <<>>, all_img |-> <<>>,
             merged |-> st.merged]
       ELSE CHOOSE y \in
              {IF out.err # "none"
               THEN [returned |-> FALSE, err |-> out.err, all_obj |-> <<>>,
                     all_img |-> <<>>, merged |-> st.merged]
               ELSE IF Len(RowsOf(m, c)) = 0
               THEN [returned |-> FALSE, err |-> "ValueError", all_obj |-> <<>>,
                     all_img |-> <<>>, merged |-> st.merged]
               ELSE [returned |-> TRUE, err |-> "none", all_obj |-> out.obj,
                     all_img |-> out.img, merged |-> st.merged]
               : out \in {CollectGood([obj |-> <<>>, img |-> <<>>, err |-> "none"],
                                      st.merged, b, c, RowsOf(m, c), 1)}} : TRUE
       : st \in {fill_points_rows(m, b, c)}} : TRUE

(***************************************************************************)
(* Inputs of the point extractor: merged groups as merge_rows builds them  *)
(* (no empty group, frame keys ascending), whose records carry a           *)
(* detection, the filled points of the board and an optional pose.         *)
(***************************************************************************)
\* a corner seen whole and a corner with its y missing
WholePoint == << <<1>>, <<2>> >>
HalfPoint == << <<1>>, NaN >>
CornerValues == {WholePoint, HalfPoint}

\* the ascending lists of identifiers of the board's points
IdLists == {<<>>, <<0>>, <<1>>, <<0, 1>>}

\* the detections: corners with their identifiers, every corner of the
\* board with no identifiers, and nothing detected
PointDetections ==
    UNION {{[corners |-> Vec(cs), ids |-> Vec(is)] : cs \in [1 .. Len(is) -> CornerValues]}
           : is \in IdLists}
    \cup {[corners |-> Vec(<<WholePoint, WholePoint>>), ids |-> PyNone],
          [corners |-> PyNone, ids |-> PyNone]}

\* a record whose filled field is still the empty detection although both
\* corners were detected
StaleDetection == [corners |-> Vec(<<WholePoint, WholePoint>>), ids |-> Vec(<<0, 1>>)]

\* the detection with filled as fill_points_rows left it at the end of
\* detect_video, and the stale record
FilledDetections ==
    {[corners |-> d.corners, ids |-> d.ids,
      filled |-> fill_points(TheBoard, d.corners, d.ids).v] : d \in PointDetections}
    \cup {[corners |-> StaleDetection.corners, ids |-> StaleDetection.ids,
           filled |-> EmptyDetection(TheBoard)]}

RVecValue == Vec(<< <<1>>, <<2>>, <<3>> >>)
TVecValue == Vec(<< <<4>>, <<5>>, <<6>> >>)
PosePairs == { <<RVecValue, TVecValue>>, <<Missing, TVecValue>>, <<RVecValue, PyNone>> }

PointRecords(k) ==
    {[framenum |-> k, corners |-> d.corners, ids |-> d.ids, filled |-> d.filled,
      rvec |-> q[1], tvec |-> q[2]] :
        d \in FilledDetections, q \in PosePairs}

\* which cameras each group holds: at most n non-empty groups with at most
\* t records together
RECURSIVE TotalSize(_)
TotalSize(s) == IF s = <<>> THEN 0 ELSE Cardinality(Head(s)) + TotalSize(Tail(s))

MergedShapes(n, t) ==
    {s \in SeqsUpTo((SUBSET CamNameSet) \ {{}}, n) : TotalSize(s) <= t}

RECURSIVE PointMerged(_)
PointMerged(s) ==
    IF s = <<>> THEN {<<>>}
    ELSE {Append(m, g) : m \in PointMerged(SubSeq(s, 1, Len(s) - 1)),
                         g \in [s[Len(s)] -> PointRecords(Len(s) - 1)]}

PointInputs(n, t) == UNION {PointMerged(s) : s \in MergedShapes(n, t)}

MinCamerasInputs == 0 .. MaxCams
MinPointsInputs == 0 .. NPointsPerDetect(TheBoard)

InitPoints ==
    /\ pc = "start"
    /\ all_rows = <<>>
    /\ merged \in PointInputs(MaxFrames, MaxDetections)
    /\ cam_names \in CamNameInputs
    /\ board = "Checkerboard" /\ cameras = "None"
    /\ min_cameras = 1 /\ min_points = 3 /\ ignore_no_pose = FALSE
    /\ NoResults

\* b.fill_points_rows(rows) on the records of one camera, before the
\* extraction
FillPointsRows ==
    /\ pc = "start"
    /\ \E b \in BoardObjects, c \in CamNameSet :
          \E st \in {fill_points_rows(merged, b, c)} :
              /\ merged' = st.merged
              /\ rows_err' = st.err
    /\ UNCHANGED << pc, all_rows, cam_names, board, cameras, min_cameras,
                    min_points, ignore_no_pose, objp, imgp, rtvecs, good,
                    all_obj, all_img, returned, err, calls >>

\* all_obj, all_img = b.get_all_calibration_points(rows) on the records of
\* one camera
GetAllCalibrationPoints ==
    /\ pc = "start"
    /\ \E b \in BoardObjects, c \in CamNameSet :
          \E r \in {get_all_calibration_points(merged, b, c)} :
              /\ merged' = r.merged
              /\ all_obj' = r.all_obj
              /\ all_img' = r.all_img
              /\ rows_err' = r.err
    /\ pc' = "calibration points"
    /\ UNCHANGED << all_rows, cam_names, board, cameras, min_cameras,
                    min_points, ignore_no_pose, objp, imgp, rtvecs, good,
                    returned, err, calls >>

\* objp, imgp = extract_points(merged, board, cam_names, min_cameras,
\*                             min_points, ignore_no_pose)
ExtractPoints ==
    /\ pc = "start"
    /\ \E mc \in MinCamerasInputs, mp \in MinPointsInputs, ig \in BOOLEAN :
          \E r \in {extract_points(merged, TheBoard, cam_names, mc, mp, ig)} :
              /\ min_cameras' = mc
              /\ min_points' = mp
              /\ ignore_no_pose' = ig
              /\ objp' = r.objp
              /\ imgp' = r.imgp
              /\ good' = r.good
              /\ returned' = r.returned
              /\ err' = r.err
    /\ pc' = "extracted"
    /\ UNCHANGED << all_rows, cam_names, merged, board, cameras, rtvecs,
                    all_obj, all_img, rows_err, calls >>

NextPoints == FillPointsRows \/ GetAllCalibrationPoints \/ ExtractPoints

SpecPoints == InitPoints /\ [][NextPoints]_vars

(***************************************************************************)
(* estimate_pose_points, for a board kind b and a camera object.           *)
(* CharucoBoard returns (None, None) when corners or ids is None or there  *)
(* are fewer than three corners, and the pose OpenCV solves for otherwise; *)
(* Checkerboard reads the undefined name `corners` in its first statement  *)
(* and raises NameError.                                                   *)
(***************************************************************************)
MinPoseCorners == 3
EstimatedRVec == Vec(<< <<7>>, <<8>>, <<9>> >>)
EstimatedTVec == Vec(<< <<10>>, <<11>>, <<12>> >>)
BoardKinds == {"Charuco", "Checkerboard"}

estimate_pose_points(b, corners, ids) ==
    IF b = "Checkerboard"
    THEN [err |-> "NameError", rvec |-> PyNone, tvec |-> PyNone]
    ELSE IF corners.tag = "None" \/ ids.tag = "None"
         THEN [err |-> "none", rvec |-> PyNone, tvec |-> PyNone]
         ELSE IF Len(corners.v) < MinPoseCorners
              THEN [err |-> "none", rvec |-> PyNone, tvec |-> PyNone]
              ELSE [err |-> "none", rvec |-> EstimatedRVec, tvec |-> EstimatedTVec]

\* for row in rows: rvec, tvec = self.estimate_pose_points(...);
\* row['rvec'] = rvec; row['tvec'] = tvec, from row k on, stopping at the
\* first exception
RECURSIVE EstimateRows(_, _, _, _, _)
EstimateRows(st, b, c, rows, k) ==
    IF st.err # "none" \/ k > Len(rows) THEN st
    ELSE EstimateRows(
           CHOOSE x \in
             {IF e.err # "none" THEN [st EXCEPT !.err = e.err]
              ELSE [st EXCEPT !.merged[rows[k]][c].rvec = e.rvec,
                              !.merged[rows[k]][c].tvec = e.tvec]
              : e \in {estimate_pose_points(b, st.merged[rows[k]][c].corners,
                                             st.merged[rows[k]][c].ids)}} : TRUE,
           b, c, rows, k + 1)

\* board.estimate_pose_rows(camera, rows), rows the records of camera c
estimate_pose_rows(m, b, c) ==
    EstimateRows([merged |-> m, err |-> "none"], b, c, RowsOf(m, c), 1)

(***************************************************************************)
(* extract_rtvecs                                                          *)
(***************************************************************************)
\* 'rvec' not in r or 'tvec' not in r
LacksPose(r) == r.rvec.tag = "missing" \/ r.tvec.tag = "missing"

\* r['rvec'] is None or r['tvec'] is None
PoseIsNone(r) == r.rvec.tag = "None" \/ r.tvec.tag = "None"

\* np.hstack([rvec, tvec])
HStack(rvec, tvec) == rvec.v \o tvec.v

\* rtvecs[cix, rix] = v
SetCell(T, cix, rix, v) == [T EXCEPT ![cix] = [@ EXCEPT ![rix] = v]]

\* the record with the estimated pose stored in it
Cached(r, e) == [r EXCEPT !.rvec = e.rvec, !.tvec = e.tvec]

\* the pose is stored in a copy of the record: the groups stay as they were
WriteBackToCopy(m, rix, cname, e) == m

\* r['rvec'] = rvec; r['tvec'] = tvec, r being the record in the group
WriteBack(m, rix, cname, e) == [m EXCEPT ![rix][cname] = Cached(@, e)]

\* the rest of the body once r holds both keys: skip a None pose, else
\* store the 6-vector
StoreCell(st, r, cix, rix) ==
    IF PoseIsNone(r) THEN st
    ELSE [st EXCEPT !.rtvecs = SetCell(st.rtvecs, cix, rix, HStack(r.rvec, r.tvec))]

\* a record that lacks a key is passed over as if its pose were None
VisitLenient(st, names, b, cams, rix, cix) ==
    IF names[cix] \notin DOMAIN st.merged[rix] THEN st
    ELSE IF LacksPose(st.merged[rix][names[cix]]) THEN st
         ELSE StoreCell(st, st.merged[rix][names[cix]], cix, rix)

\* the loop body for camera position cix of frame rix; st holds the groups
\* (their records are mutated in place), the tensor, the cells estimated
\* and the exception raised, if any
Visit(st, names, b, cams, rix, cix) ==
    IF names[cix] \notin DOMAIN st.merged[rix] THEN st
    ELSE IF ~LacksPose(st.merged[rix][names[cix]])
         THEN StoreCell(st, st.merged[rix][names[cix]], cix, rix)
         ELSE IF b = "None" THEN [st EXCEPT !.err = "ValueError"]
         ELSE IF cams = "None" THEN [st EXCEPT !.err = "TypeError"]
         ELSE \* rvec, tvec = board.estimate_pose_points(cameras[cix], ...)
              CHOOSE x \in
                {IF e.err # "none"
                 THEN [st EXCEPT !.err = e.err,
                                 !.estimated = @ \cup {<<rix, names[cix]>>}]
                 ELSE StoreCell(
                        [st EXCEPT !.merged = WriteBack(@, rix, names[cix], e),
                                   !.estimated = @ \cup {<<rix, names[cix]>>}],
                        Cached(st.merged[rix][names[cix]], e), cix, rix)
                 : e \in {estimate_pose_points(b, st.merged[rix][names[cix]].corners,
                                                st.merged[rix][names[cix]].ids)}} : TRUE

\* the two nested loops from cell i on (cell i is camera position
\* ((i - 1) % n_cams) + 1 of frame ((i - 1) \div n_cams) + 1), stopping at
\* the first exception
RECURSIVE RtLoop(_, _, _, _, _)
RtLoop(st, names, b, cams, i) ==
    IF st.err # "none" \/ i > Len(st.merged) * Len(names) THEN st
    ELSE RtLoop(Visit(st, names, b, cams, ((i - 1) \div Len(names)) + 1,
                      ((i - 1) % Len(names)) + 1),
                names, b, cams, i + 1)

\* num_good = np.sum(~np.isnan(rtvecs), axis=0)[:, 0], at frame rix
NumGoodPoses(T, rix) == Cardinality({cix \in 1 .. Len(T) : ~IsNaN(T[cix][rix][1])})

\* the mask num_good > min_cameras
RECURSIVE FrameMaskStrict(_, _, _, _)
FrameMaskStrict(T, n, mc, rix) ==
    IF rix > n THEN <<>>
    ELSE <<NumGoodPoses(T, rix) > mc>> \o FrameMaskStrict(T, n, mc, rix + 1)

\* the mask num_good >= min_cameras, from frame rix on
RECURSIVE FrameMask(_, _, _, _)
FrameMask(T, n, mc, rix) ==
    IF rix > n THEN <<>>
    ELSE <<NumGoodPoses(T, rix) >= mc>> \o FrameMask(T, n, mc, rix + 1)

\* the last statements of extract_rtvecs, given the state the loop left
FilterFrames(st, mc) ==
    IF st.err # "none"
    THEN [returned |-> FALSE, err |-> st.err, rtvecs |-> <<>>, good |-> <<>>,
          merged |-> st.merged, estimated |-> st.estimated]
    ELSE CHOOSE x \in
           {[returned |-> TRUE, err |-> "none",
             rtvecs |-> KeepAll(st.rtvecs, mask, 1), good |-> mask,
             merged |-> st.merged, estimated |-> st.estimated]
            : mask \in {FrameMask(st.rtvecs, Len(st.merged), mc, 1)}} : TRUE

\* the result of the call, with the groups as the call leaves them
extract_rtvecs(m, cn, mc, b, cams) ==
    IF OrderingFails(m, cn)
    THEN [returned |-> FALSE, err |-> "TypeError", rtvecs |-> <<>>, good |-> <<>>,
          merged |-> m, estimated |-> {}]
    ELSE CHOOSE x \in
           {FilterFrames(st, mc)
            : st \in {RtLoop([merged |-> m,
                              rtvecs |-> [cix \in 1 .. Len(Ordering(m, cn)) |->
                                            [rix \in 1 .. Len(m) |-> NaN6]],
                              estimated |-> {},
                              err |-> "none"],
                             Ordering(m, cn), b, cams, 1)}} : TRUE

(***************************************************************************)
(* Inputs of the pose extractor: merged groups whose records carry an      *)
(* optional pose and the detection a pose is estimated from.               *)
(***************************************************************************)
PoseValues(x) == {Missing, PyNone, x}

\* n corners, all seen whole, and their identifiers 0 .. n - 1
NCorners(n) == Vec([i \in 1 .. n |-> WholePoint])
NIds(n) == Vec([i \in 1 .. n |-> i - 1])

\* enough corners for a pose, one too few, and enough with no identifiers
PoseDetections ==
    {[corners |-> NCorners(MinPoseCorners), ids |-> NIds(MinPoseCorners)],
     [corners |-> NCorners(MinPoseCorners - 1), ids |-> NIds(MinPoseCorners - 1)],
     [corners |-> NCorners(MinPoseCorners), ids |-> PyNone]}

PoseRecords(k) ==
    {[framenum |-> k, corners |-> d.corners, ids |-> d.ids, rvec |-> rv, tvec |-> tv] :
        d \in PoseDetections,
        rv \in PoseValues(RVecValue), tv \in PoseValues(TVecValue)}

RECURSIVE PoseMerged(_)
PoseMerged(s) ==
    IF s = <<>> THEN {<<>>}
    ELSE {Append(m, g) : m \in PoseMerged(SubSeq(s, 1, Len(s) - 1)),
                         g \in [s[Len(s)] -> PoseRecords(Len(s) - 1)]}

PoseInputs(n, t) == UNION {PoseMerged(s) : s \in MergedShapes(n, t)}

\* (board, cameras) as callers pass them
BoardInputs ==
    { <<"None", "None">>, <<"Charuco", "given">>, <<"Checkerboard", "given">>,
      <<"Charuco", "None">> }

InitRtvecs ==
    /\ pc = "start"
    /\ all_rows = <<>>
    /\ merged \in PoseInputs(MaxFrames, MaxDetections)
    /\ cam_names \in CamNameInputs
    /\ \E bc \in BoardInputs : board = bc[1] /\ cameras = bc[2]
    /\ min_cameras = 1 /\ min_points = 3 /\ ignore_no_pose = FALSE
    /\ NoResults

\* rtvecs = extract_rtvecs(merged, cam_names, mc, board, cameras), made at
\* one of the positions from; the call is logged with the groups as it
\* found them and as it left them
CallExtractRtvecs(from, to, mcs) ==
    /\ pc \in from
    /\ \E mc \in mcs :
          \E r \in {extract_rtvecs(merged, cam_names, mc, board, cameras)} :
              /\ min_cameras' = mc
              /\ merged' = r.merged
              /\ rtvecs' = r.rtvecs
              /\ good' = r.good
              /\ returned' = r.returned
              /\ err' = r.err
              /\ calls' = Append(calls, [returned |-> r.returned, err |-> r.err,
                                         rtvecs |-> r.rtvecs, good |-> r.good,
                                         estimated |-> r.estimated,
                                         before |-> merged, after |-> r.merged])
    /\ pc' = to
    /\ UNCHANGED << all_rows, cam_names, board, cameras, min_points,
                    ignore_no_pose, objp, imgp, all_obj, all_img, rows_err >>

ExtractRtvecs == CallExtractRtvecs({"start"}, "called", MinCamerasInputs)

\* b.estimate_pose_rows(camera, rows) on the records of one camera, between
\* the two calls (before the first call its results are among the poses
\* the initial records carry)
EstimatePoseRows ==
    /\ pc = "called"
    /\ \E b \in BoardKinds, c \in CamNameSet :
          \E st \in {estimate_pose_rows(merged, b, c)} :
              /\ merged' = st.merged
              /\ rows_err' = st.err
    /\ pc' = "estimated"
    /\ UNCHANGED << all_rows, cam_names, board, cameras, min_cameras,
                    min_points, ignore_no_pose, objp, imgp, rtvecs, good,
                    all_obj, all_img, returned, err, calls >>

\* the same call again, with the same arguments
ExtractRtvecsAgain ==
    CallExtractRtvecs({"called", "estimated"}, "called twice", {min_cameras})

NextRtvecs == ExtractRtvecs \/ EstimatePoseRows \/ ExtractRtvecsAgain

SpecRtvecs == InitRtvecs /\ [][NextRtvecs]_vars

(***************************************************************************)
(* Properties of merge_rows (checked under SpecMerge).                     *)
(***************************************************************************)
\* the camera name of each input list, as merge_rows pairs them
EffNames == IF cam_names.given THEN cam_names.names ELSE DefaultNames(Len(all_rows))

\* every frame key of every input list
\* the positions <<list, index>> of the input records
RecordRefs == UNION {{<<i, j>> : j \in 1 .. Len(all_rows[i])} : i \in 1 .. Len(all_rows)}

AllKeys == {all_rows[y[1]][y[2]].framenum : y \in RecordRefs}

\* the frame key of group g: the frame key of the records it holds
GroupKey(g) == merged[g][CHOOSE c \in DOMAIN merged[g] : TRUE].framenum

Distinct(s) == \A i, j \in 1 .. Len(s) : s[i] = s[j] => i = j

Perms(n) == {p \in [1 .. n -> 1 .. n] : \A i, j \in 1 .. n : p[i] = p[j] => i = j}

Permute(s, p) == [i \in 1 .. Len(s) |-> s[p[i]]]

MergeReturned == pc = "merged" /\ returned

\* C1: merge_rows returns exactly one group per distinct frame key of the
\* input lists (none missing, none extra; every group holds records of one
\* key only), and the groups are in strictly ascending frame-key order.
C1_OneGroupPerKeyAscending ==
    MergeReturned =>
        /\ Len(merged) = Cardinality(AllKeys)
        /\ \A g \in 1 .. Len(merged) :
              /\ DOMAIN merged[g] # {}
              /\ \A c \in DOMAIN merged[g] : merged[g][c].framenum = GroupKey(g)
        /\ {GroupKey(g) : g \in 1 .. Len(merged)} = AllKeys
        /\ \A g, h \in 1 .. Len(merged) : g < h => GroupKey(g) < GroupKey(h)

\* C1 witness: a merge of two lists whose keys arrive out of order and
\* overlap, giving at least two groups.
C1_Witness ==
    /\ MergeReturned
    /\ Len(all_rows) = 2
    /\ Len(all_rows[1]) = 2
    /\ all_rows[1][1].framenum > all_rows[1][2].framenum
    /\ Len(all_rows[2]) = 1
    /\ all_rows[2][1].framenum = all_rows[1][1].framenum
    /\ Len(merged) = 2

\* C2: a camera name is a key of the group of frame key k exactly when a
\* list of that camera holds a record with frame key k, and the value under
\* it is one of that camera's own records with frame key k.
C2_OnlyObservingCameras ==
    MergeReturned =>
        \A g \in 1 .. Len(merged) : \A k \in FrameKeys :
            (\E c \in DOMAIN merged[g] : merged[g][c].framenum = k) =>
                \A n \in CamNameSet :
                    LET ownk == {all_rows[y[1]][y[2]] :
                                    y \in {z \in RecordRefs :
                                        /\ EffNames[z[1]] = n
                                        /\ all_rows[z[1]][z[2]].framenum = k}}
                    IN  /\ (n \in DOMAIN merged[g]) <=> (ownk # {})
                        /\ (n \in DOMAIN merged[g]) => merged[g][n] \in ownk

\* C2 witness: a frame that one camera observed and another, named camera
\* did not.
C2_Witness ==
    /\ MergeReturned
    /\ Len(all_rows) = 2
    /\ Len(all_rows[1]) >= 1
    /\ Len(all_rows[2]) >= 1
    /\ \E g \in 1 .. Len(merged) : Cardinality(DOMAIN merged[g]) = 1
    /\ \E g \in 1 .. Len(merged) : Cardinality(DOMAIN merged[g]) = 2

NameCountMismatch == cam_names.given /\ Len(cam_names.names) # Len(all_rows)

\* C3 as stated: on a camera-name count mismatch merge_rows raises
\* ConfigurationError and returns nothing.
C3_RaisesConfigurationError ==
    (pc = "merged" /\ NameCountMismatch) => (err = "ConfigurationError" /\ ~returned)

\* C3 amended: on a camera-name count mismatch merge_rows raises
\* AssertionError (its assert statement fails) and returns nothing.
C3_RaisesAssertionError ==
    (pc = "merged" /\ NameCountMismatch) =>
        (err = "AssertionError" /\ ~returned /\ merged = <<>>)

\* C3 witness: merge_rows was called with fewer names than non-empty lists.
C3_Witness ==
    /\ pc = "merged"
    /\ NameCountMismatch
    /\ Len(all_rows) = 2
    /\ Len(cam_names.names) = 1
    /\ Len(all_rows[1]) >= 1

\* C8 as stated: permuting the lists together with the explicit camera
\* names leaves the merged result unchanged.
C8_PermutationInvariant ==
    (MergeReturned /\ cam_names.given) =>
        \A p \in Perms(Len(all_rows)) :
            LET r == merge_rows(Permute(all_rows, p), Names(Permute(cam_names.names, p)))
            IN  r.returned /\ r.ret = merged

\* C8 amended: when the explicit camera names are pairwise distinct,
\* permuting the lists together with the names leaves the merged result
\* unchanged.
C8_PermutationInvariantDistinct ==
    (MergeReturned /\ cam_names.given /\ Distinct(cam_names.names)) =>
        \A p \in Perms(Len(all_rows)) :
            LET r == merge_rows(Permute(all_rows, p), Names(Permute(cam_names.names, p)))
            IN  r.returned /\ r.ret = merged

\* C8 witness: two lists under distinct explicit names that share a frame
\* key and also differ in one.
C8_Witness ==
    /\ MergeReturned
    /\ cam_names.given
    /\ Distinct(cam_names.names)
    /\ Len(all_rows) = 2
    /\ \E g \in 1 .. Len(merged) : Cardinality(DOMAIN merged[g]) = 2
    /\ \E g \in 1 .. Len(merged) : Cardinality(DOMAIN merged[g]) = 1

(***************************************************************************)
(* Properties of extract_points (checked under SpecPoints).                *)
(***************************************************************************)
PointsReturned == pc = "extracted" /\ returned

\* the camera ordering of the call and the size of the observation axis
PNames == Ordering(merged, cam_names)
NPts == NPointsPerDetect(TheBoard)
NObs == Len(merged) * NPts

\* how many rows a mask keeps
RECURSIVE CountTrue(_)
CountTrue(mask) ==
    IF mask = <<>> THEN 0 ELSE (IF Head(mask) THEN 1 ELSE 0) + CountTrue(Tail(mask))

\* the observations a mask keeps, in order
RECURSIVE KeptFrom(_, _)
KeptFrom(mask, o) ==
    IF o > Len(mask) THEN <<>>
    ELSE (IF mask[o] THEN <<o>> ELSE <<>>) \o KeptFrom(mask, o + 1)
KeptObs == KeptFrom(good, 1)

\* a point with any NaN component is missing
PointMissing(pt) == \E c \in 1 .. Len(pt) : IsNaN(pt[c])

\* the record's pose is missing or None
NoPose(r) == r.rvec.tag # "vec" \/ r.tvec.tag # "vec"

\* the filled points of a record that have no NaN component
GoodPointCount(r) == Cardinality({p \in 1 .. NPts : ~PointMissing(r.filled[p])})

\* the camera at position cix is in the frame's group and is left NaN
LeftNaN(r) == GoodPointCount(r) < min_points \/ (ignore_no_pose /\ NoPose(r))

\* the camera at position cix holds non-missing data for observation o
HoldsData(cix, o) ==
    LET row == merged[FrameOf(TheBoard, o)]
        cname == PNames[cix]
    IN  /\ cname \in DOMAIN row
        /\ ~LeftNaN(row[cname])
        /\ ~PointMissing(row[cname].filled[PointOf(TheBoard, o)])

CamerasWithData(o) == Cardinality({cix \in 1 .. Len(PNames) : HoldsData(cix, o)})

\* C4: an observation (frame, board point) is retained exactly when the
\* number of cameras holding non-missing data for it is >= min_cameras, a
\* point with any NaN component counting as missing; both tensors keep the
\* same observations in the same order.
C4_RetainedIffEnoughCameras ==
    PointsReturned =>
        /\ Len(good) = NObs
        /\ \A o \in 1 .. NObs : good[o] <=> (CamerasWithData(o) >= min_cameras)
        /\ \A cix \in 1 .. Len(PNames) :
              Len(objp[cix]) = Len(KeptObs) /\ Len(imgp[cix]) = Len(KeptObs)

\* C7: the number of retained rows is at most num_frames x num_board_points,
\* equals it at min_cameras = 0, and no larger threshold retains more rows
\* on the same input.
C7_ThresholdMonotone ==
    PointsReturned =>
        /\ CountTrue(good) <= NObs
        /\ \A cix \in 1 .. Len(PNames) :
              Len(objp[cix]) = CountTrue(good) /\ Len(imgp[cix]) = CountTrue(good)
        /\ (min_cameras = 0 => CountTrue(good) = NObs)
        /\ \A m2 \in MinCamerasInputs :
              m2 > min_cameras =>
                  \E r \in {extract_points(merged, TheBoard, cam_names, m2,
                                           min_points, ignore_no_pose)} :
                      /\ r.returned
                      /\ CountTrue(r.good) <= CountTrue(good)
                      /\ \A cix \in 1 .. Len(PNames) :
                            Len(r.objp[cix]) = CountTrue(r.good)

\* C7 witness: a call with min_cameras = 1 that keeps some rows, on an
\* input of which min_cameras = 2 keeps fewer, but some.
C7_Witness ==
    /\ PointsReturned
    /\ min_cameras = 1
    /\ CountTrue(good) > 0
    /\ CountTrue(extract_points(merged, TheBoard, cam_names, 2, min_points,
                                ignore_no_pose).good) < CountTrue(good)
    /\ CountTrue(extract_points(merged, TheBoard, cam_names, 2, min_points,
                                ignore_no_pose).good) > 0

\* C9: for every frame and every camera of the ordering present in its
\* group: when the camera's count of filled points with no NaN component is
\* below min_points, or ignore_no_pose is set and the record's rvec or tvec
\* is missing or None, all its image and object slots of the frame are NaN;
\* otherwise its image slots are the record's filled points and its object
\* slots the board's template with the unobserved points NaN.  (Read off
\* the rows the filter retains; with min_cameras = 0 that is every row.)
C9_SlotsFilledOrLeftNaN ==
    PointsReturned =>
        \A k \in 1 .. Len(KeptObs) : \A cix \in 1 .. Len(PNames) :
            LET o == KeptObs[k]
                row == merged[FrameOf(TheBoard, o)]
                p == PointOf(TheBoard, o)
                cname == PNames[cix]
            IN  cname \in DOMAIN row =>
                    IF LeftNaN(row[cname])
                    THEN imgp[cix][k] = NaN2 /\ objp[cix][k] = NaN3
                    ELSE /\ imgp[cix][k] = row[cname].filled[p]
                         /\ objp[cix][k] = IF PointMissing(row[cname].filled[p])
                                           THEN NaN3
                                           ELSE ObjpTemplate(TheBoard)[p]

\* C9 witness: every row is retained; in one frame a camera with enough
\* points is left NaN for want of a pose and another is copied with one of
\* its points unobserved.
C9_Witness ==
    /\ PointsReturned
    /\ min_cameras = 0
    /\ min_points = 1
    /\ ignore_no_pose
    /\ \E rix \in 1 .. Len(merged) : \E c1, c2 \in 1 .. Len(PNames) :
          /\ PNames[c1] \in DOMAIN merged[rix]
          /\ PNames[c2] \in DOMAIN merged[rix]
          /\ GoodPointCount(merged[rix][PNames[c1]]) = NPts
          /\ NoPose(merged[rix][PNames[c1]])
          /\ GoodPointCount(merged[rix][PNames[c2]]) = 1
          /\ ~NoPose(merged[rix][PNames[c2]])
          /\ imgp[c2][(rix - 1) * NPts + 1] # NaN2
          /\ imgp[c1][(rix - 1) * NPts + 1] = NaN2

(***************************************************************************)
(* Properties of extract_rtvecs (checked under SpecRtvecs).                *)
(***************************************************************************)
\* the camera ordering of the calls (a call changes no group's keys)
RNames == Ordering(merged, cam_names)

\* the second call found the groups as the first call left them (no row
\* method rewrote a record in between)
SameGroups == calls[2].before = calls[1].after

\* C5: when the first call returned a tensor, the same call made again on
\* the same groups returns an identical tensor, invokes no pose estimation
\* and changes no record.
C5_SecondCallIsPureRead ==
    (pc = "called twice" /\ calls[1].returned /\ SameGroups) =>
        /\ calls[2].returned
        /\ calls[2].rtvecs = calls[1].rtvecs
        /\ calls[2].good = calls[1].good
        /\ calls[2].estimated = {}
        /\ calls[2].after = calls[2].before
        /\ merged = calls[2].before

\* C5 witness: the first call estimated two poses, one of them None, and
\* the call was made again.
C5_Witness ==
    /\ pc = "called twice"
    /\ calls[1].returned
    /\ SameGroups
    /\ \E x, y \in calls[1].estimated :
          /\ merged[x[1]][x[2]].rvec = PyNone
          /\ merged[y[1]][y[2]].rvec = EstimatedRVec
          /\ calls[1].before[y[1]][y[2]].rvec = Missing

\* some record of a camera of the ordering lacks rvec or tvec in groups m
SomeRecordLacksPose(m) ==
    /\ ~OrderingFails(m, cam_names)
    /\ \E rix \in 1 .. Len(m) : \E cix \in 1 .. Len(Ordering(m, cam_names)) :
          /\ Ordering(m, cam_names)[cix] \in DOMAIN m[rix]
          /\ LacksPose(m[rix][Ordering(m, cam_names)[cix]])

\* C6 as stated: without a board, when a record of a camera of the ordering
\* lacks rvec or tvec, the call fails with ConfigurationError, returns no
\* tensor and leaves every record unchanged.
C6_RaisesConfigurationError ==
    \A n \in 1 .. Len(calls) :
        (board = "None" /\ SomeRecordLacksPose(calls[n].before)) =>
            /\ calls[n].err = "ConfigurationError"
            /\ ~calls[n].returned

\* C6 amended: without a board, when a record of a camera of the ordering
\* lacks rvec or tvec, the call raises ValueError, returns no tensor (not
\* a partial one either) and leaves every record unchanged.
C6_RaisesValueError ==
    \A n \in 1 .. Len(calls) :
        (board = "None" /\ SomeRecordLacksPose(calls[n].before)) =>
            /\ calls[n].err = "ValueError"
            /\ ~calls[n].returned
            /\ calls[n].rtvecs = <<>>
            /\ calls[n].estimated = {}
            /\ calls[n].after = calls[n].before
            /\ (n = Len(calls) => rtvecs = <<>> /\ ~returned)

\* C6 witness: a call without a board that met a record with a pose and
\* then one lacking only its tvec.
C6_Witness ==
    /\ pc = "called"
    /\ board = "None"
    /\ err = "ValueError"
    /\ Len(merged) = 2
    /\ \E c \in DOMAIN merged[1] : ~LacksPose(merged[1][c]) /\ ~PoseIsNone(merged[1][c])
    /\ \E c \in DOMAIN merged[2] :
          merged[2][c].rvec = RVecValue /\ merged[2][c].tvec = Missing

\* after a call that returned, the camera at position cix has an available
\* pose for frame rix: it is in the group and its rvec and tvec are not None
Available(cix, rix) ==
    /\ RNames[cix] \in DOMAIN merged[rix]
    /\ merged[rix][RNames[cix]].rvec.tag = "vec"
    /\ merged[rix][RNames[cix]].tvec.tag = "vec"

KeptFrames == KeptFrom(good, 1)

\* C10: a frame is retained exactly when the number of cameras of the
\* ordering with an available (non-None) rvec and tvec for it is >=
\* min_cameras; retained frames keep the order of the groups; in a retained
\* frame a camera that is absent or whose pose is None has an all-NaN
\* 6-vector and every other camera has its rvec followed by its tvec.
C10_FramesRetainedByPoseCount ==
    (pc \in {"called", "called twice"} /\ returned) =>
        /\ Len(good) = Len(merged)
        /\ \A rix \in 1 .. Len(merged) :
              good[rix] <=>
                  (Cardinality({cix \in 1 .. Len(RNames) : Available(cix, rix)})
                      >= min_cameras)
        /\ Len(rtvecs) = Len(RNames)
        /\ \A cix \in 1 .. Len(RNames) :
              /\ Len(rtvecs[cix]) = Len(KeptFrames)
              /\ \A k \in 1 .. Len(KeptFrames) :
                    rtvecs[cix][k] =
                        IF Available(cix, KeptFrames[k])
                        THEN merged[KeptFrames[k]][RNames[cix]].rvec.v
                             \o merged[KeptFrames[k]][RNames[cix]].tvec.v
                        ELSE NaN6

\* C10 witness: of two frames the first is dropped and the second kept,
\* with one camera's pose estimated by the call, at min_cameras = 1.
C10_Witness ==
    /\ pc = "called"
    /\ returned
    /\ min_cameras = 1
    /\ Len(merged) = 2
    /\ good = <<FALSE, TRUE>>
    /\ calls[1].estimated # {}
    /\ \E cix \in 1 .. Len(RNames) : rtvecs[cix][1] = EstimatedRVec.v \o EstimatedTVec.v

====
